---------------------------- MODULE Spec2Model ----------------------------
(***************************************************************************)
(* A model of se_mailbox: the exclusive-create file lock (filelock.py) and *)
(* the Maildir++ quota cache "maildirsize" kept by QuotaMixin              *)
(* (se_mailbox.py).  Several processes, each with its own folder object    *)
(* for the same top-level folder, run recalculate, add, remove, size and   *)
(* set_quota.  One action is one step between two filesystem calls, so     *)
(* that every interleaving of the processes' filesystem calls is explored. *)
(*                                                                         *)
(* A text line is a sequence of one-character strings, without its "\n";   *)
(* a file is a sequence of lines.  Every writer of the cache file writes   *)
(* whole lines, so nothing is lost by this.                                *)
(***************************************************************************)
EXTENDS Integers, Sequences, FiniteSets, TLC

(***************************************************************************)
(* Bounds of the model.                                                    *)
(***************************************************************************)
\* operations started in one behaviour of Spec
MaxOps == 2
\* operations started in one behaviour of SpecSeq (a single process)
SeqOps == 4
\* message keys the storage hands out
MaxKey == 3
\* operations started in one behaviour of FairSpec, beyond the one that
\* is under way at its start
FairOps == 1
ExtOps == 2
QuotaOps == 2
BigOps == 1
\* FileLock's timeout, counted in retry delays (both are constructor
\* parameters; test_filelock.py uses timeout=0.1 with delay=0.05)
Timeout == 2
\* the max_age of the FileLock instances constructed with one, counted in
\* retry delays
MaxAge == 1

\* the processes: two, each with its own folder object and lock instances
Procs == {1, 2}
Keys == 1..MaxKey
\* sizes of the messages delivered by add (st_size)
Sizes == {7, 100}
\* ceilings given to set_quota; None is Python's None
None == -1
QuotaVals == {None, 1}
\* ceilings given to set_quota where the header is looked at: unset, zero
\* and the ceilings of the scenario set_quota(1000, 10)
QuotaAny == {None, 0, 10, 1000}

\* the top-level folder, its child folders and what the children hold
Root == "INBOX"
Children == {"Sent", "Trash"}
Folders == {Root} \cup Children
\* the sizes of the messages the children may hold
ChildMsgs == {[f \in Children |-> IF f = "Sent" THEN <<5>> ELSE <<9>>],
              [f \in Children |-> IF f = "Sent" THEN <<>> ELSE <<9>>]}

(***************************************************************************)
(* Text: formatting and parsing, as the Python operators do it.            *)
(***************************************************************************)
Digits == <<"0", "1", "2", "3", "4", "5", "6", "7", "8", "9">>

IsDigit(ch) == \E i \in 1..10 : Digits[i] = ch

DigitVal(ch) == (CHOOSE i \in 1..10 : Digits[i] = ch) - 1

RECURSIVE DecStr(_)
\* the decimal digits of n >= 0
DecStr(n) == IF n < 10 THEN <<Digits[n + 1]>>
             ELSE DecStr(n \div 10) \o <<Digits[(n % 10) + 1]>>

\* "%d" % n
FmtD(n) == IF n < 0 THEN <<"-">> \o DecStr(0 - n) ELSE DecStr(n)

\* Python truth of a quota value: None and 0 are false
Truthy(q) == q # None /\ q # 0

\* "%s" % (q or "")
FmtOr(q) == IF Truthy(q) THEN FmtD(q) ELSE <<>>

RECURSIVE Join(_, _)
\* sep.join(parts)
Join(parts, sep) ==
    IF parts = <<>> THEN <<>>
    ELSE IF Len(parts) = 1 THEN parts[1]
    ELSE parts[1] \o sep \o Join(Tail(parts), sep)

\* mutant of QuotaMarkers: the two ceilings without their letters, joined
\* by a blank
QuotaMarkersBare(s, c) == FmtOr(s) \o <<" ">> \o FmtOr(c)

\* ["%d%s" % (q, l) for l, q in (("S", s), ("C", c)) if q], comma-joined
QuotaMarkers(s, c) ==
    Join((IF Truthy(s) THEN <<FmtD(s) \o <<"S">>>> ELSE <<>>) \o
         (IF Truthy(c) THEN <<FmtD(c) \o <<"C">>>> ELSE <<>>), <<",">>)

\* "%s %s" % (size_quota or "", count_quota or ""), the header add writes
AddHeader(s, c) == FmtOr(s) \o <<" ">> \o FmtOr(c)

\* "%d %d" % (size, count)
DetailLine(size, count) == FmtD(size) \o <<" ">> \o FmtD(count)

\* "%d 1" % msg_size
AddLine(size) == FmtD(size) \o <<" ", "1">>

\* mutant of RemoveLine: the count is written without its sign
RemoveLineUnsigned(size) == <<"-">> \o FmtD(size) \o <<" ", "1">>

\* "-%d -1" % msg_size
RemoveLine(size) == <<"-">> \o FmtD(size) \o <<" ", "-", "1">>

RECURSIVE SplitOn(_, _)
\* s.split(sep) for a one-character sep: empty fields are kept
SplitOn(s, sep) ==
    IF \A i \in 1..Len(s) : s[i] # sep THEN <<s>>
    ELSE LET k == CHOOSE i \in 1..Len(s) :
                      s[i] = sep /\ \A j \in 1..(i - 1) : s[j] # sep
         IN <<SubSeq(s, 1, k - 1)>> \o SplitOn(SubSeq(s, k + 1, Len(s)), sep)

\* s.split(): the fields between runs of blanks, none of them empty
SplitWs(s) == SelectSeq(SplitOn(s, " "), LAMBDA t : t # <<>>)

RECURSIVE Strip(_)
\* s.strip()
Strip(s) ==
    IF s = <<>> THEN s
    ELSE IF s[1] = " " THEN Strip(Tail(s))
    ELSE IF s[Len(s)] = " " THEN Strip(SubSeq(s, 1, Len(s) - 1))
    ELSE s

RECURSIVE DigitsVal(_)
DigitsVal(s) == IF s = <<>> THEN 0
                ELSE 10 * DigitsVal(SubSeq(s, 1, Len(s) - 1)) + DigitVal(s[Len(s)])

\* int() of a string without blanks around it
ParseStripped(t) ==
    LET neg == t # <<>> /\ t[1] = "-"
        d == IF t # <<>> /\ (t[1] = "-" \/ t[1] = "+") THEN Tail(t) ELSE t
        ok == d # <<>> /\ \A i \in 1..Len(d) : IsDigit(d[i])
    IN [ok |-> ok,
        val |-> IF ~ok THEN 0 ELSE IF neg THEN 0 - DigitsVal(d) ELSE DigitsVal(d)]

\* int(s): ok is FALSE where Python raises ValueError
ParseInt(s) == CHOOSE r \in {ParseStripped(t) : t \in {Strip(s)}} : TRUE

RECURSIVE ByteLen(_)
\* st_size of a file: every line and its "\n"
ByteLen(lines) ==
    IF lines = <<>> THEN 0
    ELSE IF Len(lines) = 1 THEN Len(lines[1]) + 1
    ELSE ByteLen(SubSeq(lines, 1, Len(lines) \div 2))
             + ByteLen(SubSeq(lines, Len(lines) \div 2 + 1, Len(lines)))


\* int() of the two fields of a detail line; any other number of fields
\* fails to unpack
ParseFields(tok) ==
    IF Len(tok) # 2 THEN [ok |-> FALSE, size |-> 0, count |-> 0]
    ELSE LET a == ParseInt(tok[1])
             b == ParseInt(tok[2])
         IN [ok |-> a.ok /\ b.ok, size |-> a.val, count |-> b.val]

\* one pass of the loop of size(): "size, count = line.split()" and int()
\* of both; ok is FALSE where Python raises ValueError
ParseDetail(line) == CHOOSE r \in {ParseFields(tok) : tok \in {SplitWs(line)}} : TRUE

RECURSIVE SumSizeOf(_)
SumSizeOf(lines) ==
    IF lines = <<>> THEN 0
    ELSE IF Len(lines) = 1 THEN ParseDetail(lines[1]).size
    ELSE SumSizeOf(SubSeq(lines, 1, Len(lines) \div 2))
             + SumSizeOf(SubSeq(lines, Len(lines) \div 2 + 1, Len(lines)))

RECURSIVE SumCountOf(_)
SumCountOf(lines) ==
    IF lines = <<>> THEN 0
    ELSE IF Len(lines) = 1 THEN ParseDetail(lines[1]).count
    ELSE SumCountOf(SubSeq(lines, 1, Len(lines) \div 2))
             + SumCountOf(SubSeq(lines, Len(lines) \div 2 + 1, Len(lines)))

\* the loop of size() over the detail lines
SumDetails(lines) ==
    [ok |-> \A i \in 1..Len(lines) : ParseDetail(lines[i]).ok,
     size |-> SumSizeOf(lines),
     count |-> SumCountOf(lines)]

\* what size() reads from the file: the totals of readlines()[1:] and the
\* index i of the last detail line (0 when there is none or one)
ReadTotals(lines) ==
    LET detail == IF lines = <<>> THEN <<>> ELSE Tail(lines)
        sum == SumDetails(detail)
    IN [ok |-> sum.ok, size |-> sum.size, count |-> sum.count,
        i |-> IF Len(detail) > 1 THEN Len(detail) - 1 ELSE 0]

RECURSIVE ScanMarkers(_, _)
\* the loop of get_quota() over the comma-separated markers; acc is
\* (size_quota, count_quota) so far
ScanMarkers(fields, acc) ==
    IF fields = <<>> THEN acc
    ELSE LET q == fields[1]
             tag == IF q = <<>> THEN "" ELSE q[Len(q)]
             n == IF q = <<>> THEN [ok |-> TRUE, val |-> 0]
                  ELSE ParseInt(SubSeq(q, 1, Len(q) - 1))
         IN IF tag = "S"
            THEN IF n.ok THEN ScanMarkers(Tail(fields), [acc EXCEPT !.s = n.val])
                 ELSE [acc EXCEPT !.ok = FALSE]
            ELSE IF tag = "C"
            THEN IF n.ok THEN ScanMarkers(Tail(fields), [acc EXCEPT !.c = n.val])
                 ELSE [acc EXCEPT !.ok = FALSE]
            ELSE ScanMarkers(Tail(fields), acc)

\* get_quota() on a file: (None, None) when it does not exist, else the
\* markers of readline().strip().split(","); readline() of an empty file
\* is the empty string
ReadQuota(file) ==
    IF ~file.exists THEN [ok |-> TRUE, s |-> None, c |-> None]
    ELSE CHOOSE r \in
             {ScanMarkers(fields, [ok |-> TRUE, s |-> None, c |-> None]) :
                  fields \in {SplitOn(Strip(IF file.lines = <<>> THEN <<>>
                                            ELSE file.lines[1]), ",")}} : TRUE

(***************************************************************************)
(* State.                                                                  *)
(***************************************************************************)
VARIABLES
    msgs,       \* storage of Root: key -> st_size of the message, or None
    sub,        \* storage of the children: the st_size of their messages
    origin,     \* the operation that brought Root's cache file into being
    nextkey,    \* the next key the storage hands out
    cache,      \* the maildirsize file of every folder
    lockfile,   \* the maildirsize.lock artifact of every folder: its creator
    pc,         \* where each process is
    op,         \* the operation each process is running
    cur,        \* recalculate: the folder whose frame is running
    todo,       \* recalculate: subfolders still to recurse into
    total,      \* recalculate: (total_size, total_count) of the frame
    ptotal,     \* recalculate: the totals of the calling frame
    key,        \* add, remove: the message key
    msz,        \* add, remove: msg_size
    buf,        \* the lines written to the open file, flushed by close()
    mode,       \* the mode the file is open in
    is_locked,  \* FileLock.is_locked of the process's instance
    elapsed,    \* acquire: time.time() - start_time, in retry delays
    exc,        \* the exception leaving the with block, if any
    sq,         \* self.size_quota of the process's folder object
    cq,         \* self.count_quota of the process's folder object
    res,        \* how the process's last operation ended
    skipped,    \* the operation's lock on Root's cache timed out
    wrote,      \* the operation has modified Root's cache file
    left,       \* operations that may still be started
    taint,      \* what has happened so far: timeout, raise, overlap
    tree,       \* the directory of the folder remove_folder is called on
    rf,         \* remove_folder: where it is, what it listed and deleted
    age         \* time.time() - st_mtime of every artifact, in retry delays

\* what the operations of QuotaMixin and FileLock leave alone
rfvars == <<tree, rf>>

vars == <<msgs, sub, origin, nextkey, cache, lockfile, pc, op, cur, todo, total, ptotal,
          key, msz, buf, mode, is_locked, elapsed, exc, sq, cq, res,
          skipped, wrote, left, taint, tree, rf, age>>

\* lockfile values: no artifact, or one left behind by a process that died
NoLock == 0
Crashed == 0 - 1

NoFile == [exists |-> FALSE, lines |-> <<>>]
File(lines) == [exists |-> TRUE, lines |-> lines]

\* how a call ended: the operation, normally or by an exception, and
\* the value returned
NoRes == [op |-> "none", st |-> "none", err |-> "", val |-> <<>>]
Ok(o, v) == [op |-> o, st |-> "ok", err |-> "", val |-> v]
Raised(o, e) == [op |-> o, st |-> "raised", err |-> e, val |-> <<>>]

\* the keys of the messages stored in Root
Stored(m) == {k \in Keys : m[k] # None}

RECURSIVE SumSizes(_, _)
SumSizes(m, ks) == IF ks = {} THEN 0
                   ELSE LET k == CHOOSE x \in ks : TRUE
                        IN m[k] + SumSizes(m, ks \ {k})

RECURSIVE SeqSum(_)
SeqSum(s) == IF s = <<>> THEN 0 ELSE s[1] + SeqSum(Tail(s))

\* the walk of recalculate() over cur and new of folder f: every entry
\* counts, its size is its st_size
Walk(f, m, s) == IF f = Root THEN <<SumSizes(m, Stored(m)), Cardinality(Stored(m))>>
                 ELSE <<SeqSum(s[f]), Len(s[f])>>

\* list_folders() of folder f: the children have no folders of their own
ListFolders(f) == IF f = Root THEN Children ELSE {}

\* mutant of RecalcTargets: Trash is recursed into like any subfolder
RecalcTargetsAll(f) == ListFolders(f)

\* the subfolders recalculate() recurses into
RecalcTargets(f) == {c \in ListFolders(f) : c # "Trash"}

Plus(a, b) == <<a[1] + b[1], a[2] + b[2]>>

RECURSIVE Aggregate(_, _, _)
\* the true aggregate of folder f: its own messages and those of its
\* subfolders other than Trash
Aggregate(f, m, s) ==
    LET RECURSIVE Sub(_)
        Sub(cs) == IF cs = {} THEN <<0, 0>>
                   ELSE LET c == CHOOSE x \in cs : TRUE
                        IN Plus(Aggregate(c, m, s), Sub(cs \ {c}))
    IN Plus(Walk(f, m, s), Sub({c \in ListFolders(f) : c # "Trash"}))

\* the true aggregate of Root now
Truth == Aggregate(Root, msgs, sub)

\* the totals the cache file of folder f stands for
CacheTotals(f) == LET t == ReadTotals(cache[f].lines) IN <<t.size, t.count>>

(***************************************************************************)
(* Initial states: the folder is empty or holds one message; its cache     *)
(* file does not exist yet or is as a recalculation wrote it; no process   *)
(* has started anything, and every folder object has loaded its quota      *)
(* (QuotaMixin.__init__ calls get_quota).                                  *)
(***************************************************************************)
InitMsgs == {[k \in Keys |-> None], [k \in Keys |-> IF k = 1 THEN 100 ELSE None]}

Recalculated(m, s) ==
    File(<<QuotaMarkers(None, None),
           DetailLine(Aggregate(Root, m, s)[1], Aggregate(Root, m, s)[2])>>)

\* the storage and the cache file of the top-level folder
InitStorage ==
    /\ msgs \in InitMsgs
    /\ sub \in ChildMsgs
    /\ nextkey = IF msgs[1] = None THEN 1 ELSE 2
    /\ \E c \in {NoFile, Recalculated(msgs, sub)} :
           cache = [f \in Folders |-> IF f = Root THEN c ELSE NoFile]
    /\ origin = IF cache[Root].exists THEN "recalculate" ELSE "none"

\* entry names as the characters they are made of
MsgName == <<"m">>
DotName == <<".", "n">>
NewName == <<"d">>

\* no remove_folder is running; what it has listed, deleted and raised
RfIdle == [pc |-> "idle", dirs |-> {}, files |-> {}, todo |-> {}, sub |-> "",
           snap |-> {}, deleted |-> {}, res |-> "none"]

\* a folder as add_folder leaves it: new, cur, tmp and maildirfolder
FreshFolder == [exists |-> TRUE, dirs |-> {"new", "cur", "tmp"},
           ent |-> [d \in {"new", "cur", "tmp", "extra"} |-> {}],
           files |-> {"maildirfolder"}]

\* the folders remove_folder may be called on
Trees ==
    {[exists |-> TRUE, dirs |-> {"new", "cur", "tmp"} \cup x,
      ent |-> [d \in {"new", "cur", "tmp", "extra"} |->
                  IF d = "new" THEN n ELSE IF d = "cur" THEN c
                  ELSE IF d = "tmp" THEN t ELSE {}],
      files |-> {"maildirfolder", "maildirsize"}] :
         x \in {{}, {"extra"}}, n \in SUBSET {MsgName, DotName},
         c \in SUBSET {MsgName, DotName}, t \in SUBSET {MsgName}}

\* no remove_folder is part of the behaviour
InitNoRf == tree = FreshFolder /\ rf = RfIdle

\* what no operation has touched yet
InitLocal ==
    /\ cur = [p \in Procs |-> Root]
    /\ todo = [p \in Procs |-> {}]
    /\ total = [p \in Procs |-> <<0, 0>>]
    /\ ptotal = [p \in Procs |-> <<0, 0>>]
    /\ key = [p \in Procs |-> 0]
    /\ msz = [p \in Procs |-> 0]
    /\ buf = [p \in Procs |-> <<>>]
    /\ mode = [p \in Procs |-> ""]
    /\ elapsed = [p \in Procs |-> 0]
    /\ exc = [p \in Procs |-> ""]
    /\ cq = [p \in Procs |-> ReadQuota(cache[Root]).c]
    /\ res = [p \in Procs |-> NoRes]
    /\ skipped = [p \in Procs |-> FALSE]
    /\ wrote = [p \in Procs |-> FALSE]
    /\ age = [f \in Folders |-> 0]
    /\ taint = {}

InitCommon ==
    /\ InitStorage
    /\ InitLocal
    /\ InitNoRf
    /\ pc = [p \in Procs |-> "idle"]
    /\ op = [p \in Procs |-> "none"]
    /\ is_locked = [p \in Procs |-> FALSE]
    /\ sq = [p \in Procs |-> ReadQuota(cache[Root]).s]

Init ==
    /\ InitCommon
    /\ Stored(msgs) # {}
    /\ sub["Sent"] # <<>>
    /\ lockfile = [f \in Folders |-> NoLock]
    /\ left = MaxOps

(***************************************************************************)
(* Bookkeeping shared by the actions.                                      *)
(***************************************************************************)
\* between the directory walk of a recalculation of Root and the end of
\* its write of Root's cache file
InRecalcWindow(p) ==
    /\ op[p] \in {"recalculate", "size"}
    /\ \/ cur[p] # Root
       \/ pc[p] \in {"rc_children", "rc_getquota", "lk_try", "lk_sleep",
                     "lk_flag", "cs_open", "cs_close"}

\* an add or a remove is under way
InAddRemove(p) == op[p] \in {"add", "remove"}

Overlap == \E p, q \in Procs : p # q /\ InRecalcWindow(p) /\ InAddRemove(q)

\* record what this step adds to the history
Taint(new) == taint' = taint \cup new \cup (IF Overlap' THEN {"overlap"} ELSE {})

\* the process is back in its caller with result r
Finish(p, r) ==
    /\ pc' = [pc EXCEPT ![p] = "idle"]
    /\ op' = [op EXCEPT ![p] = "none"]
    /\ res' = [res EXCEPT ![p] = r]
    /\ cur' = [cur EXCEPT ![p] = Root]
    /\ todo' = [todo EXCEPT ![p] = {}]
    /\ total' = [total EXCEPT ![p] = <<0, 0>>]
    /\ ptotal' = [ptotal EXCEPT ![p] = <<0, 0>>]
    /\ key' = [key EXCEPT ![p] = 0]
    /\ msz' = [msz EXCEPT ![p] = 0]
    /\ buf' = [buf EXCEPT ![p] = <<>>]
    /\ mode' = [mode EXCEPT ![p] = ""]
    /\ exc' = [exc EXCEPT ![p] = ""]

\* mutant of AbsorbsTimeout: no operation catches FileLockException
AbsorbsNothing(o) == FALSE

\* the operations whose with statement sits in "try: ... except
\* filelock.FileLockException: pass"
AbsorbsTimeout(o) == o \in {"recalculate", "size", "add", "remove"}

\* mutant of Caught: the except clause catches every exception
CaughtAny(o, e) == AbsorbsTimeout(o)

\* does "except filelock.FileLockException: pass" around the with
\* statement of operation o catch exception e
Caught(o, e) == e = "FileLockException" /\ AbsorbsTimeout(o)

\* what follows the with statement of the running operation when it is
\* left with exception e, or normally (e is "")
AfterWithExc(p, e) ==
    IF e # "" /\ ~Caught(op[p], e) THEN Finish(p, Raised(op[p], e))
    ELSE IF op[p] = "set_quota" THEN Finish(p, Ok(op[p], <<>>))
    ELSE IF op[p] = "add" THEN Finish(p, Ok(op[p], <<key[p], msz[p]>>))
    ELSE IF op[p] = "remove"
    THEN /\ pc' = [pc EXCEPT ![p] = "rm_delete"]
         /\ buf' = [buf EXCEPT ![p] = <<>>]
         /\ mode' = [mode EXCEPT ![p] = ""]
         /\ UNCHANGED <<op, res, cur, todo, total, ptotal, key, msz, exc>>
    ELSE IF cur[p] # Root
    THEN \* the recalculate() of a subfolder returns into line 72
         /\ pc' = [pc EXCEPT ![p] = "rc_children"]
         /\ cur' = [cur EXCEPT ![p] = Root]
         /\ total' = [total EXCEPT ![p] = Plus(ptotal[p], total[p])]
         /\ ptotal' = [ptotal EXCEPT ![p] = <<0, 0>>]
         /\ buf' = [buf EXCEPT ![p] = <<>>]
         /\ mode' = [mode EXCEPT ![p] = ""]
         /\ UNCHANGED <<op, res, todo, key, msz, exc>>
    ELSE Finish(p, Ok(op[p], total[p]))

\* the exception the with statement is left with: the one raised inside
\* the block, or the FileLockException of an acquire() that timed out
Leaving(p, timedout) ==
    IF exc[p] # "" THEN exc[p] ELSE IF timedout THEN "FileLockException" ELSE ""

\* what follows the with statement of the running operation: timedout
\* says that acquire raised FileLockException instead of entering it
AfterWith(p, timedout) == AfterWithExc(p, Leaving(p, timedout))

\* does AfterWith(p, timedout) end in an exception
AfterWithRaises(p, timedout) ==
    Leaving(p, timedout) # "" /\ ~Caught(op[p], Leaving(p, timedout))

(***************************************************************************)
(* FileLock (filelock.py).  The artifact of the lock on a folder's cache   *)
(* file is <size_fn>.lock; the instance is the one the running with        *)
(* statement constructed, without max_age.                                 *)
(***************************************************************************)
\* mutant of CreateExcl: O_EXCL is left out, the open always succeeds
CreateAlways(artifact) == TRUE

\* os.open(lockfile, O_CREAT | O_EXCL | O_RDWR) succeeds iff there is no
\* such file
CreateExcl(artifact) == artifact = NoLock

\* mutant of TimedOut: the timeout is taken to be one retry delay
TimedOutEarly(e) == e >= 1

\* mutant of TimedOut: acquire() retries for ever
TimedOutNever(e) == FALSE

\* (time.time() - start_time) >= self.timeout
TimedOut(e) == e >= Timeout

\* mutant of Finalized: release() without the test of is_locked
FinalizedAlways(held, artifact) == NoLock

\* __del__ of an instance that the with statement has dropped: release()
\* unlinks the artifact only if is_locked is set; artifact is what is
\* there afterwards
Finalized(held, artifact) == IF held THEN NoLock ELSE artifact

\* acquire(): the artifact is created
LockCreate(p) ==
    /\ pc[p] = "lk_try"
    /\ CreateExcl(lockfile[cur[p]])
    /\ lockfile' = [lockfile EXCEPT ![cur[p]] = p]
    /\ pc' = [pc EXCEPT ![p] = "lk_flag"]
    /\ elapsed' = [elapsed EXCEPT ![p] = 0]
    /\ UNCHANGED <<msgs, sub, origin, nextkey, cache, op, cur, todo, total, ptotal, key, msz,
                   buf, mode, is_locked, exc, sq, cq, res, skipped, wrote, left>>
    /\ Taint({})
    /\ age' = [age EXCEPT ![cur[p]] = 0]
    /\ UNCHANGED rfvars

\* acquire(): self.is_locked = True, and __enter__ returns
LockFlag(p) ==
    /\ pc[p] = "lk_flag"
    /\ is_locked' = [is_locked EXCEPT ![p] = TRUE]
    /\ pc' = [pc EXCEPT ![p] = "cs_open"]
    /\ UNCHANGED <<msgs, sub, origin, nextkey, cache, lockfile, op, cur, todo, total, ptotal,
                   key, msz, buf, mode, elapsed, exc, sq, cq, res, skipped,
                   wrote, left>>
    /\ Taint({})
    /\ UNCHANGED <<rfvars, age>>

\* acquire(): os.open fails with an errno other than EEXIST (EACCES,
\* ENOENT, ...): the OSError is raised again at once; __exit__ is not
\* called, and the instance is dropped and finalized.  The filesystem
\* fails so only as long as no operation has ended in an exception.
LockCreateFails(p) ==
    /\ pc[p] = "lk_try"
    /\ "raise" \notin taint
    /\ AfterWithExc(p, "OSError(os.open)")
    /\ lockfile' = [lockfile EXCEPT ![cur[p]] = Finalized(is_locked[p], @)]
    /\ elapsed' = [elapsed EXCEPT ![p] = 0]
    /\ UNCHANGED <<msgs, sub, origin, nextkey, cache, is_locked, sq, cq, skipped, wrote,
                   left>>
    /\ Taint(IF Caught(op[p], "OSError(os.open)") THEN {} ELSE {"raise"})
    /\ UNCHANGED <<rfvars, age>>

\* acquire(): EEXIST before the timeout, time.sleep(self.delay)
LockRetry(p) ==
    /\ pc[p] = "lk_try"
    /\ ~CreateExcl(lockfile[cur[p]])
    /\ ~TimedOut(elapsed[p])
    /\ pc' = [pc EXCEPT ![p] = "lk_sleep"]
    /\ UNCHANGED <<msgs, sub, origin, nextkey, cache, lockfile, op, cur, todo, total, ptotal,
                   key, msz, buf, mode, is_locked, elapsed, exc, sq, cq, res,
                   skipped, wrote, left>>
    /\ Taint({})
    /\ UNCHANGED <<rfvars, age>>

\* mutant of LockTimeout: after the timeout the with block is entered
\* all the same
LockTimeoutEnters(p) ==
    /\ pc[p] = "lk_try"
    /\ ~CreateExcl(lockfile[cur[p]])
    /\ TimedOut(elapsed[p])
    /\ pc' = [pc EXCEPT ![p] = "cs_open"]
    /\ elapsed' = [elapsed EXCEPT ![p] = 0]
    /\ UNCHANGED <<msgs, sub, origin, nextkey, cache, lockfile, op, cur, todo,
                   total, ptotal, key, msz, buf, mode, is_locked, exc, sq, cq,
                   res, skipped, wrote, left>>
    /\ Taint({"timeout"})
    /\ UNCHANGED <<rfvars, age>>

\* acquire(): EEXIST at or after the timeout, FileLockException; __exit__
\* is not called, and the instance is dropped and finalized
LockTimeout(p) ==
    /\ pc[p] = "lk_try"
    /\ ~CreateExcl(lockfile[cur[p]])
    /\ TimedOut(elapsed[p])
    /\ AfterWith(p, TRUE)
    /\ lockfile' = [lockfile EXCEPT ![cur[p]] = Finalized(is_locked[p], @)]
    /\ elapsed' = [elapsed EXCEPT ![p] = 0]
    /\ skipped' = [skipped EXCEPT ![p] = @ \/ cur[p] = Root]
    /\ UNCHANGED <<msgs, sub, origin, nextkey, cache, is_locked, sq, cq, wrote, left>>
    /\ Taint({"timeout"} \cup IF AfterWithRaises(p, TRUE) THEN {"raise"} ELSE {})
    /\ UNCHANGED <<rfvars, age>>

\* one retry delay passes: the sleepers wake up
Waiting == \E p \in Procs : pc[p] = "lk_sleep" \/ (pc[p] = "lk_try" /\ elapsed[p] < Timeout)

\* what the passing of one retry delay does to the processes in acquire()
Passes ==
    /\ elapsed' = [p \in Procs |->
                     IF pc[p] \in {"lk_try", "lk_sleep"} /\ elapsed[p] < Timeout
                     THEN elapsed[p] + 1 ELSE elapsed[p]]
    /\ pc' = [p \in Procs |-> IF pc[p] = "lk_sleep" THEN "lk_try" ELSE pc[p]]
    /\ UNCHANGED <<msgs, sub, origin, nextkey, cache, lockfile, op, cur, todo, total, ptotal,
                   key, msz, buf, mode, is_locked, exc, sq, cq, res, skipped,
                   wrote, left>>
    /\ Taint({})

Tick ==
    /\ Waiting
    /\ Passes
    /\ UNCHANGED <<rfvars, age>>

\* an artifact whose age max_age is still compared with
Ageing(f) == lockfile[f] # NoLock /\ age[f] <= MaxAge

\* one retry delay passes where the age of the artifacts matters
TickAged ==
    /\ Waiting \/ \E f \in Folders : Ageing(f)
    /\ Passes
    /\ age' = [f \in Folders |-> IF Ageing(f) THEN age[f] + 1 ELSE age[f]]
    /\ UNCHANGED rfvars

\* release(): os.close(self.fd); os.unlink(self.lockfile).  Were the
\* artifact gone, unlink would raise OSError before is_locked is reset.
Unlink(p) ==
    /\ pc[p] = "rl_unlink"
    /\ IF lockfile[cur[p]] = NoLock
       THEN /\ Finish(p, Raised(op[p], "OSError"))
            /\ UNCHANGED lockfile
            /\ UNCHANGED <<msgs, sub, origin, nextkey, cache, is_locked, elapsed, sq, cq,
                           skipped, wrote, left>>
            /\ Taint({"raise"})
       ELSE /\ lockfile' = [lockfile EXCEPT ![cur[p]] = NoLock]
            /\ pc' = [pc EXCEPT ![p] = "rl_flag"]
            /\ UNCHANGED <<op, cur, todo, total, ptotal, key, msz, buf, mode,
                           exc, res>>
            /\ UNCHANGED <<msgs, sub, origin, nextkey, cache, is_locked, elapsed, sq, cq,
                           skipped, wrote, left>>
            /\ Taint({})
    /\ UNCHANGED <<rfvars, age>>

\* release(): self.is_locked = False; __exit__ returns, the with
\* statement is left, and the instance is dropped and finalized
Unflag(p) ==
    /\ pc[p] = "rl_flag"
    /\ is_locked' = [is_locked EXCEPT ![p] = FALSE]
    /\ AfterWith(p, FALSE)
    /\ lockfile' = [lockfile EXCEPT ![cur[p]] = Finalized(is_locked'[p], @)]
    /\ UNCHANGED <<msgs, sub, origin, nextkey, cache, elapsed, sq, cq, skipped,
                   wrote, left>>
    /\ Taint(IF AfterWithRaises(p, FALSE) THEN {"raise"} ELSE {})
    /\ UNCHANGED <<rfvars, age>>

(***************************************************************************)
(* The cache file inside the with statement.  Python buffers what is       *)
(* written and hands it to the file when close() is called: open() in "w"  *)
(* mode leaves the file empty until then.                                  *)
(***************************************************************************)
\* mutant of Opened: set_quota writes the header and nothing else
OpenedHeaderOnly(o, file, s, c, size, pending) ==
    IF o \in {"recalculate", "size"}
    THEN [file |-> File(<<>>), mode |-> "w", buf |-> pending, err |-> ""]
    ELSE IF o = "add"
    THEN IF file.exists
         THEN [file |-> file, mode |-> "a", buf |-> <<AddLine(size)>>, err |-> ""]
         ELSE [file |-> File(<<>>), mode |-> "w",
               buf |-> <<AddHeader(s, c), AddLine(size)>>, err |-> ""]
    ELSE IF o = "remove"
    THEN [file |-> File(file.lines), mode |-> "a", buf |-> <<RemoveLine(size)>>,
          err |-> ""]
    ELSE IF file.exists /\ file.lines = <<>>
         THEN [file |-> file, mode |-> "", buf |-> <<>>, err |-> "IndexError"]
         ELSE [file |-> File(<<>>), mode |-> "w", buf |-> <<QuotaMarkers(s, c)>>,
               err |-> ""]

\* the open() of operation o on file: the file afterwards, the mode, the
\* lines about to be written, and the exception if one is raised.
\* s and c are the quotas at hand, size is msg_size, pending are the
\* lines recalculate() prepared before it took the lock.
Opened(o, file, s, c, size, pending) ==
    IF o \in {"recalculate", "size"}
    THEN [file |-> File(<<>>), mode |-> "w", buf |-> pending, err |-> ""]
    ELSE IF o = "add"
    THEN IF file.exists
         THEN [file |-> file, mode |-> "a", buf |-> <<AddLine(size)>>, err |-> ""]
         ELSE [file |-> File(<<>>), mode |-> "w",
               buf |-> <<AddHeader(s, c), AddLine(size)>>, err |-> ""]
    ELSE IF o = "remove"
    THEN [file |-> File(file.lines), mode |-> "a", buf |-> <<RemoveLine(size)>>,
          err |-> ""]
    ELSE \* set_quota: readlines(), lines[0] = ..., open(size_fn, "w")
         IF file.exists /\ file.lines = <<>>
         THEN [file |-> file, mode |-> "", buf |-> <<>>, err |-> "IndexError"]
         ELSE [file |-> File(<<>>), mode |-> "w",
               buf |-> <<QuotaMarkers(s, c)>> \o
                       (IF file.exists THEN Tail(file.lines) ELSE <<>>),
               err |-> ""]

\* mutant of Flushed: the lines written replace the file in every mode
FlushedOverwrites(file, m, b) == File(b)

\* close() of a file opened in mode m with lines b written to it
Flushed(file, m, b) == File(IF m = "w" THEN b ELSE file.lines \o b)

\* the first statements of the with block, up to the open()
Open(p) ==
    /\ pc[p] = "cs_open"
    /\ LET o == Opened(op[p], cache[cur[p]], sq[p], cq[p], msz[p], buf[p])
       IN /\ cache' = [cache EXCEPT ![cur[p]] = o.file]
          /\ mode' = [mode EXCEPT ![p] = o.mode]
          /\ buf' = [buf EXCEPT ![p] = o.buf]
          /\ exc' = [exc EXCEPT ![p] = o.err]
          /\ pc' = [pc EXCEPT ![p] = IF o.err = "" THEN "cs_close" ELSE "rl_unlink"]
    /\ wrote' = [wrote EXCEPT ![p] = @ \/ cache'[Root] # cache[Root]]
    /\ origin' = IF ~cache[Root].exists /\ cache'[Root].exists
                 THEN IF op[p] = "size" THEN "recalculate" ELSE op[p]
                 ELSE origin
    /\ UNCHANGED <<msgs, sub, nextkey, lockfile, op, cur, todo, total, ptotal, key,
                   msz, is_locked, elapsed, sq, cq, res, skipped, left>>
    /\ Taint({})
    /\ UNCHANGED <<rfvars, age>>

\* mutant of OpenFails: the IOError leaves the block without __exit__
OpenFailsLeaks(p) ==
    /\ pc[p] = "cs_open"
    /\ "raise" \notin taint
    /\ Finish(p, Raised(op[p], "IOError"))
    /\ UNCHANGED <<msgs, sub, origin, nextkey, cache, lockfile, is_locked,
                   elapsed, sq, cq, skipped, wrote, left>>
    /\ Taint({"raise"})
    /\ UNCHANGED <<rfvars, age>>

\* the open() fails (permission denied, no space left, ...): the
\* IOError leaves the with block.  The filesystem fails so once, and not
\* after another operation has ended in an exception.
OpenFails(p) ==
    /\ pc[p] = "cs_open"
    /\ "raise" \notin taint
    /\ exc' = [exc EXCEPT ![p] = "IOError"]
    /\ pc' = [pc EXCEPT ![p] = "rl_unlink"]
    /\ UNCHANGED <<msgs, sub, origin, nextkey, cache, lockfile, op, cur, todo, total, ptotal,
                   key, msz, buf, mode, is_locked, elapsed, sq, cq, res,
                   skipped, wrote, left>>
    /\ Taint({})
    /\ UNCHANGED <<rfvars, age>>

\* the write() calls and close(): the end of the with block
Close(p) ==
    /\ pc[p] = "cs_close"
    /\ cache' = [cache EXCEPT ![cur[p]] = Flushed(@, mode[p], buf[p])]
    /\ pc' = [pc EXCEPT ![p] = "rl_unlink"]
    /\ wrote' = [wrote EXCEPT ![p] = @ \/ cache'[Root] # cache[Root]]
    /\ UNCHANGED <<msgs, sub, origin, nextkey, lockfile, op, cur, todo, total, ptotal, key,
                   msz, buf, mode, is_locked, elapsed, exc, sq, cq, res,
                   skipped, left>>
    /\ Taint({})
    /\ UNCHANGED <<rfvars, age>>

(***************************************************************************)
(* QuotaMixin (se_mailbox.py): the steps of the operations outside the     *)
(* with statement.                                                         *)
(***************************************************************************)
\* the process has called an operation before
Used(p) == op[p] # "none" \/ res[p] # NoRes

\* the caller calls an operation.  The processes are alike: of those that
\* have not called anything yet, the one with the least number goes first.
Call(p, o) ==
    /\ pc[p] = "idle"
    /\ left > 0
    /\ IF p = 1 THEN TRUE ELSE Used(p - 1)
    /\ left' = left - 1
    /\ op' = [op EXCEPT ![p] = o]
    /\ res' = [res EXCEPT ![p] = NoRes]
    /\ skipped' = [skipped EXCEPT ![p] = FALSE]
    /\ wrote' = [wrote EXCEPT ![p] = FALSE]

\* recalculate() is called
StartRecalculate(p) ==
    /\ Call(p, "recalculate")
    /\ pc' = [pc EXCEPT ![p] = "rc_walk"]
    /\ UNCHANGED <<msgs, sub, origin, nextkey, cache, lockfile, cur, todo, total, ptotal, key,
                   msz, buf, mode, is_locked, elapsed, exc, sq, cq>>
    /\ Taint({})
    /\ UNCHANGED <<rfvars, age>>

\* recalculate(): the walk over cur and new, then list_folders()
RcWalk(p) ==
    /\ pc[p] = "rc_walk"
    /\ total' = [total EXCEPT ![p] = Walk(cur[p], msgs, sub)]
    /\ todo' = [todo EXCEPT ![p] = IF cur[p] = Root THEN RecalcTargets(Root) ELSE @]
    /\ pc' = [pc EXCEPT ![p] = "rc_children"]
    /\ UNCHANGED <<msgs, sub, origin, nextkey, cache, lockfile, op, cur, ptotal, key, msz, buf,
                   mode, is_locked, elapsed, exc, sq, cq, res, skipped, wrote, left>>
    /\ Taint({})
    /\ UNCHANGED <<rfvars, age>>

\* recalculate(): the loop over the subfolders; get_folder(subfolder)
\* .recalculate() is run as a frame of its own
RcChildren(p) ==
    /\ pc[p] = "rc_children"
    /\ IF cur[p] = Root /\ todo[p] # {}
       THEN \E c \in todo[p] :
                /\ cur' = [cur EXCEPT ![p] = c]
                /\ todo' = [todo EXCEPT ![p] = @ \ {c}]
                /\ ptotal' = [ptotal EXCEPT ![p] = total[p]]
                /\ total' = [total EXCEPT ![p] = <<0, 0>>]
                /\ pc' = [pc EXCEPT ![p] = "rc_walk"]
       ELSE /\ pc' = [pc EXCEPT ![p] = "rc_getquota"]
            /\ UNCHANGED <<cur, todo, ptotal, total>>
    /\ UNCHANGED <<msgs, sub, origin, nextkey, cache, lockfile, op, key, msz, buf, mode,
                   is_locked, elapsed, exc, sq, cq, res, skipped, wrote, left>>
    /\ Taint({})
    /\ UNCHANGED <<rfvars, age>>

\* recalculate(): self.get_quota(), the quota markers, and the FileLock
\* is constructed and entered
RcGetQuota(p) ==
    /\ pc[p] = "rc_getquota"
    /\ LET q == ReadQuota(cache[cur[p]])
       IN IF ~q.ok
          THEN /\ Finish(p, Raised(op[p], "ValueError"))
               /\ UNCHANGED <<sq, cq, elapsed, is_locked>>
               /\ Taint({"raise"})
          ELSE /\ sq' = [sq EXCEPT ![p] = IF cur[p] = Root THEN q.s ELSE @]
               /\ cq' = [cq EXCEPT ![p] = IF cur[p] = Root THEN q.c ELSE @]
               /\ buf' = [buf EXCEPT ![p] = <<QuotaMarkers(q.s, q.c),
                                              DetailLine(total[p][1], total[p][2])>>]
               /\ elapsed' = [elapsed EXCEPT ![p] = 0]
               /\ is_locked' = [is_locked EXCEPT ![p] = FALSE]
               /\ pc' = [pc EXCEPT ![p] = "lk_try"]
               /\ UNCHANGED <<op, cur, todo, total, ptotal, key, msz, mode, exc, res>>
               /\ Taint({})
    /\ UNCHANGED <<msgs, sub, origin, nextkey, cache, lockfile, skipped, wrote, left>>
    /\ UNCHANGED <<rfvars, age>>

\* add(message, key): the storage stores the message
StartAdd(p) ==
    /\ Call(p, "add")
    /\ nextkey \in Keys
    /\ \E s \in Sizes : msgs' = [msgs EXCEPT ![nextkey] = s]
    /\ key' = [key EXCEPT ![p] = nextkey]
    /\ nextkey' = nextkey + 1
    /\ pc' = [pc EXCEPT ![p] = "add_stat"]
    /\ UNCHANGED <<sub, origin, cache, lockfile, cur, todo, total, ptotal, msz,
                   buf, mode, is_locked, elapsed, exc, sq, cq>>
    /\ Taint({})
    /\ UNCHANGED <<rfvars, age>>

\* add(): self._lookup(filename) and os.stat(full_fn).st_size, and the
\* FileLock is constructed and entered
AddStat(p) ==
    /\ pc[p] = "add_stat"
    /\ IF msgs[key[p]] = None
       THEN /\ Finish(p, Raised(op[p], "KeyError"))
            /\ UNCHANGED <<elapsed, is_locked>>
            /\ Taint({"raise"})
       ELSE /\ msz' = [msz EXCEPT ![p] = msgs[key[p]]]
            /\ elapsed' = [elapsed EXCEPT ![p] = 0]
            /\ is_locked' = [is_locked EXCEPT ![p] = FALSE]
            /\ pc' = [pc EXCEPT ![p] = "lk_try"]
            /\ UNCHANGED <<op, cur, todo, total, ptotal, key, buf, mode, exc, res>>
            /\ Taint({})
    /\ UNCHANGED <<msgs, sub, origin, nextkey, cache, lockfile, sq, cq, skipped,
                   wrote, left>>
    /\ UNCHANGED <<rfvars, age>>

\* remove(key) of a stored message: self._lookup(key) and
\* os.stat(full_fn).st_size, and the FileLock is constructed and entered
StartRemove(p) ==
    /\ Call(p, "remove")
    /\ \E k \in Stored(msgs) :
           /\ key' = [key EXCEPT ![p] = k]
           /\ msz' = [msz EXCEPT ![p] = msgs[k]]
    /\ elapsed' = [elapsed EXCEPT ![p] = 0]
    /\ is_locked' = [is_locked EXCEPT ![p] = FALSE]
    /\ pc' = [pc EXCEPT ![p] = "lk_try"]
    /\ UNCHANGED <<msgs, sub, origin, nextkey, cache, lockfile, cur, todo, total, ptotal, buf,
                   mode, exc, sq, cq>>
    /\ Taint({})
    /\ UNCHANGED <<rfvars, age>>

\* remove(): super().remove(key), after the with statement
RmDelete(p) ==
    /\ pc[p] = "rm_delete"
    /\ IF msgs[key[p]] = None
       THEN /\ Finish(p, Raised(op[p], "KeyError"))
            /\ UNCHANGED msgs
            /\ Taint({"raise"})
       ELSE /\ msgs' = [msgs EXCEPT ![key[p]] = None]
            /\ Finish(p, Ok(op[p], <<msz[p]>>))
            /\ Taint({})
    /\ UNCHANGED <<sub, origin, nextkey, cache, lockfile, is_locked, elapsed, sq, cq, skipped,
                   wrote, left>>
    /\ UNCHANGED <<rfvars, age>>

\* set_quota(s, c): the attributes are set, the markers built, and the
\* FileLock is constructed and entered
SetQuotaFrom(p, vals) ==
    /\ Call(p, "set_quota")
    /\ \E s, c \in vals :
           /\ sq' = [sq EXCEPT ![p] = s]
           /\ cq' = [cq EXCEPT ![p] = c]
    /\ elapsed' = [elapsed EXCEPT ![p] = 0]
    /\ is_locked' = [is_locked EXCEPT ![p] = FALSE]
    /\ pc' = [pc EXCEPT ![p] = "lk_try"]
    /\ UNCHANGED <<msgs, sub, origin, nextkey, cache, lockfile, cur, todo, total, ptotal, key,
                   msz, buf, mode, exc>>
    /\ Taint({})
    /\ UNCHANGED <<rfvars, age>>

StartSetQuota(p) == SetQuotaFrom(p, QuotaVals)

StartSetQuotaAny(p) == SetQuotaFrom(p, QuotaAny)

\* size() is called
StartSize(p) ==
    /\ Call(p, "size")
    /\ pc' = [pc EXCEPT ![p] = "sz_stat"]
    /\ UNCHANGED <<msgs, sub, origin, nextkey, cache, lockfile, cur, todo, total, ptotal, key,
                   msz, buf, mode, is_locked, elapsed, exc, sq, cq>>
    /\ Taint({})
    /\ UNCHANGED <<rfvars, age>>

\* the size above which size() recalculates
SizeThreshold == 5120

\* mutant of MustRecalculate: a file of exactly the threshold counts as
\* too large
MustRecalculateAtLeast(file) == ~file.exists \/ ByteLen(file.lines) >= SizeThreshold

\* size(): no cache file, or one larger than the threshold
MustRecalculate(file) == ~file.exists \/ ByteLen(file.lines) > SizeThreshold

\* size(): os.path.exists and os.stat of the cache file
SizeStat(p) ==
    /\ pc[p] = "sz_stat"
    /\ pc' = [pc EXCEPT ![p] = IF MustRecalculate(cache[Root]) THEN "rc_walk"
                               ELSE "sz_read"]
    /\ UNCHANGED <<msgs, sub, origin, nextkey, cache, lockfile, op, cur, todo, total, ptotal,
                   key, msz, buf, mode, is_locked, elapsed, exc, sq, cq, res,
                   skipped, wrote, left>>
    /\ Taint({})
    /\ UNCHANGED <<rfvars, age>>

\* size(): a ceiling is exceeded by the totals read
OverQuota(s, c, t) == (Truthy(c) /\ t.count > c) \/ (Truthy(s) /\ t.size > s)

\* size(): the file is read and summed; aged says whether its st_mtime
\* is more than 15 minutes back
SizeReadWith(p, aged) ==
    /\ pc[p] = "sz_read"
    /\ LET t == ReadTotals(cache[Root].lines)
       IN IF ~t.ok
          THEN Finish(p, Raised(op[p], "ValueError")) /\ Taint({"raise"})
          ELSE IF OverQuota(sq[p], cq[p], t) /\ (t.i = 0 \/ aged)
               THEN /\ pc' = [pc EXCEPT ![p] = "rc_walk"]
                    /\ UNCHANGED <<op, cur, todo, total, ptotal, key, msz,
                                   buf, mode, exc, res>>
                    /\ Taint({})
               ELSE Finish(p, Ok(op[p], <<t.size, t.count>>)) /\ Taint({})
    /\ UNCHANGED <<msgs, sub, origin, nextkey, cache, lockfile, is_locked, elapsed, sq, cq,
                   skipped, wrote, left>>
    /\ UNCHANGED <<rfvars, age>>

SizeRead(p) == \E aged \in BOOLEAN : SizeReadWith(p, aged)

\* get_quota() is called: both ceilings are reset
StartGetQuota(p) ==
    /\ Call(p, "get_quota")
    /\ sq' = [sq EXCEPT ![p] = None]
    /\ cq' = [cq EXCEPT ![p] = None]
    /\ pc' = [pc EXCEPT ![p] = "gq_read"]
    /\ UNCHANGED <<msgs, sub, origin, nextkey, cache, lockfile, cur, todo, total, ptotal, key,
                   msz, buf, mode, is_locked, elapsed, exc>>
    /\ Taint({})
    /\ UNCHANGED <<rfvars, age>>

\* get_quota(): the first line of the cache file, if there is a file, is
\* read and scanned for markers; int() of a marker may raise ValueError
GqRead(p) ==
    /\ pc[p] = "gq_read"
    /\ LET q == ReadQuota(cache[Root])
       IN /\ sq' = [sq EXCEPT ![p] = q.s]
          /\ cq' = [cq EXCEPT ![p] = q.c]
          /\ IF q.ok THEN Finish(p, Ok(op[p], <<>>)) /\ Taint({})
             ELSE Finish(p, Raised(op[p], "ValueError")) /\ Taint({"raise"})
    /\ UNCHANGED <<msgs, sub, origin, nextkey, cache, lockfile, is_locked, elapsed,
                   skipped, wrote, left>>
    /\ UNCHANGED <<rfvars, age>>

\* get_quota(): the open() or the readline() fails (permission denied,
\* the file is gone since os.path.exists, a sharing violation).  What is
\* raised is an OSError on Python 3, which the except clause catches: both
\* ceilings stay unset; on Python 2 it is an IOError, which is no OSError
\* and leaves get_quota().  setup.py names both as supported.  The
\* filesystem fails so only as long as no operation has ended in an
\* exception.
GqReadFails(p) ==
    /\ pc[p] = "gq_read"
    /\ cache[Root].exists
    /\ "raise" \notin taint
    /\ \E caught \in BOOLEAN :
           IF caught THEN Finish(p, Ok(op[p], <<>>)) /\ Taint({})
           ELSE Finish(p, Raised(op[p], "IOError")) /\ Taint({"raise"})
    /\ UNCHANGED <<msgs, sub, origin, nextkey, cache, lockfile, is_locked, elapsed, sq, cq,
                   skipped, wrote, left>>
    /\ UNCHANGED <<rfvars, age>>

(***************************************************************************)
(* The specifications.                                                     *)
(***************************************************************************)
Step(p) ==
    \/ StartRecalculate(p) \/ RcWalk(p) \/ RcChildren(p) \/ RcGetQuota(p)
    \/ StartAdd(p) \/ AddStat(p)
    \/ StartRemove(p) \/ RmDelete(p)
    \/ StartSetQuota(p)
    \/ StartSize(p) \/ SizeStat(p) \/ SizeRead(p)
    \/ StartGetQuota(p) \/ GqRead(p) \/ GqReadFails(p)
    \/ LockCreate(p) \/ LockFlag(p) \/ LockRetry(p) \/ LockTimeout(p)
    \/ Open(p) \/ OpenFails(p) \/ Close(p)
    \/ Unlink(p) \/ Unflag(p)

Next == (\E p \in Procs : Step(p)) \/ Tick

\* several processes on one folder
Spec == Init /\ [][Next]_vars

\* several processes on one folder whose lock artifacts may fail to be
\* created for another reason than their existence
NextFault == Next \/ \E p \in Procs : LockCreateFails(p)

SpecFault == Init /\ [][NextFault]_vars

\* process p is killed while the artifact it created exists: neither
\* __exit__ nor __del__ runs, and nothing removes the artifact (no caller
\* in se_mailbox.py passes max_age)
Crash(p) ==
    /\ pc[p] \notin {"idle", "dead"}
    /\ lockfile[cur[p]] = p
    /\ lockfile' = [lockfile EXCEPT ![cur[p]] = Crashed]
    /\ pc' = [pc EXCEPT ![p] = "dead"]
    /\ is_locked' = [is_locked EXCEPT ![p] = FALSE]
    /\ UNCHANGED <<msgs, sub, origin, nextkey, cache, op, cur, todo, total, ptotal, key,
                   msz, buf, mode, elapsed, exc, sq, cq, res, skipped, wrote, left, taint>>
    /\ UNCHANGED <<rfvars, age>>

\* several processes on one folder, any of which may be killed
NextCrash == Next \/ \E p \in Procs : Crash(p)

SpecCrash == Init /\ [][NextCrash]_vars

\* one process; the artifact of a lock may have been left behind by a
\* process that died holding it
InitSeq ==
    /\ InitCommon
    /\ \E stale \in {{}, {Root}} :
           lockfile = [f \in Folders |-> IF f \in stale THEN Crashed ELSE NoLock]
    /\ left = SeqOps

NextSeq == Step(1) \/ Tick

SpecSeq == InitSeq /\ [][NextSeq]_vars

\* several processes, and the lock of the top-level folder is taken: its
\* artifact was left behind by a process that died, or process 2 is inside
\* the with block of a set_quota(1, None).  The system does not stop while
\* a process can take a step or a sleeper waits for time to pass.
InitFair ==
    /\ InitStorage
    /\ InitLocal
    /\ InitNoRf
    /\ Stored(msgs) # {}
    /\ sub["Sent"] # <<>>
    /\ \E owner \in {Crashed, 2} :
           /\ lockfile = [f \in Folders |-> IF f = Root THEN owner ELSE NoLock]
           /\ pc = [p \in Procs |-> IF p = owner THEN "cs_open" ELSE "idle"]
           /\ op = [p \in Procs |-> IF p = owner THEN "set_quota" ELSE "none"]
           /\ is_locked = [p \in Procs |-> p = owner]
           /\ sq = [p \in Procs |-> IF p = owner THEN 1 ELSE ReadQuota(cache[Root]).s]
    /\ left = FairOps

FairSpec == InitFair /\ [][Next]_vars /\ WF_vars(Next)

\* a FileLock on the cache file of folder f is constructed with max_age by
\* a client other than the folder operations, and finds the artifact older
\* than that: __init__ removes it
Override(f) ==
    /\ lockfile[f] # NoLock
    /\ lockfile' = [lockfile EXCEPT ![f] = NoLock]
    /\ UNCHANGED <<msgs, sub, origin, nextkey, cache, pc, op, cur, todo, total, ptotal, key,
                   msz, buf, mode, is_locked, elapsed, exc, sq, cq, res, skipped,
                   wrote, left>>
    /\ Taint({})
    /\ UNCHANGED <<rfvars, age>>

\* the test of __init__ on the age of the artifact
TooOld(a) == a > MaxAge

\* a FileLock on the cache file of folder f is constructed with max_age
\* where time is counted: __init__ removes the artifact if it is older
OverrideAged(f) ==
    /\ TooOld(age[f])
    /\ Override(f)

\* several processes on one folder, time, and a client that constructs
\* FileLock instances with max_age
NextAged == (\E p \in Procs : Step(p)) \/ TickAged \/ \E f \in Folders : OverrideAged(f)

SpecAged == Init /\ [][NextAged]_vars

\* one process, and the artifact of a lock may be removed under its holder
InitExt ==
    /\ InitCommon
    /\ \E stale \in {{}, {Root}} :
           lockfile = [f \in Folders |-> IF f \in stale THEN Crashed ELSE NoLock]
    /\ left = ExtOps

NextExt == Step(1) \/ Tick \/ \E f \in Folders : Override(f)

SpecExt == InitExt /\ [][NextExt]_vars

RECURSIVE Churn(_)
\* what n adds of a message of 1000000 bytes, each followed by its
\* remove, have appended to a cache file
Churn(n) == IF n = 0 THEN <<>>
            ELSE IF n = 1 THEN <<AddLine(1000000), RemoveLine(1000000)>>
            ELSE Churn(n \div 2) \o Churn(n - n \div 2)

\* a cache file of exactly 5120 bytes: as a recalculation wrote it for a
\* folder of (105, 2) with a size ceiling of 1000, then 232 adds and
\* removes, and the record of a message of 7 bytes that is no longer there
AtThreshold ==
    File(<<QuotaMarkers(1000, None), DetailLine(105, 2)>> \o Churn(232) \o <<AddLine(7)>>)

\* the same file with the remove of that message appended: 5126 bytes
Oversized == File(AtThreshold.lines \o <<RemoveLine(7)>>)

\* one process on a folder of one message of 100 bytes, with one of 5
\* bytes in Sent: its cache file is missing, at the threshold or above it
InitBig ==
    /\ msgs = [k \in Keys |-> IF k = 1 THEN 100 ELSE None]
    /\ sub = [f \in Children |-> IF f = "Sent" THEN <<5>> ELSE <<9>>]
    /\ nextkey = 2
    /\ \E c \in {NoFile, AtThreshold, Oversized} :
           cache = [f \in Folders |-> IF f = Root THEN c ELSE NoFile]
    /\ origin = IF cache[Root].exists THEN "recalculate" ELSE "none"
    /\ InitLocal
    /\ InitNoRf
    /\ pc = [p \in Procs |-> "idle"]
    /\ op = [p \in Procs |-> "none"]
    /\ is_locked = [p \in Procs |-> FALSE]
    /\ sq = [p \in Procs |-> ReadQuota(cache[Root]).s]
    /\ \E stale \in {{}, {Root}} :
           lockfile = [f \in Folders |-> IF f \in stale THEN Crashed ELSE NoLock]
    /\ left = BigOps

SpecBig == InitBig /\ [][NextSeq]_vars

\* one process, with set_quota called with any of the ceilings of QuotaAny
InitQuota ==
    /\ InitCommon
    /\ \E stale \in {{}, {Root}} :
           lockfile = [f \in Folders |-> IF f \in stale THEN Crashed ELSE NoLock]
    /\ left = QuotaOps

NextQuota == Step(1) \/ Tick \/ StartSetQuotaAny(1)

SpecQuota == InitQuota /\ [][NextQuota]_vars


(***************************************************************************)
(* Maildir.remove_folder (smaildir.py) on one folder, and the delivery of  *)
(* a message into that folder by another process.                          *)
(***************************************************************************)
\* the folder-side variables, which remove_folder leaves alone
qvars == <<msgs, sub, origin, nextkey, cache, lockfile, pc, op, cur, todo, total, ptotal,
           key, msz, buf, mode, is_locked, elapsed, exc, sq, cq, res,
           skipped, wrote, left, taint, age>>

\* the test remove_folder makes on an entry of new and cur
Blocks(name) == Len(name) < 1 \/ name[1] # "."

\* remove_folder(folder) is called
RfStart ==
    /\ rf.pc = "idle" /\ rf.res = "none"
    /\ rf' = [rf EXCEPT !.pc = "scan_new"]
    /\ UNCHANGED <<tree, qvars>>

\* one of the loops over new and cur: NotEmptyError at an entry that Blocks
RfScanDir(d, at, next) ==
    /\ rf.pc = at
    /\ rf' = IF \E name \in tree.ent[d] : Blocks(name)
             THEN [rf EXCEPT !.pc = "done", !.res = "NotEmptyError"]
             ELSE [rf EXCEPT !.pc = next]
    /\ UNCHANGED <<tree, qvars>>

RfScanNew == RfScanDir("new", "scan_new", "scan_cur")

RfScanCur == RfScanDir("cur", "scan_cur", "scan_top")

\* the loop over the folder: NotEmptyError at a directory other than new,
\* cur and tmp
RfScanTop ==
    /\ rf.pc = "scan_top"
    /\ rf' = IF \E d \in tree.dirs : d # "new" /\ d # "cur" /\ d # "tmp"
             THEN [rf EXCEPT !.pc = "done", !.res = "NotEmptyError"]
             ELSE [rf EXCEPT !.pc = "walk_list"]
    /\ UNCHANGED <<tree, qvars>>

\* walk(path, topdown=False) lists the folder, keeps the lists for the
\* last iteration and descends first
RfWalkTop ==
    /\ rf.pc = "walk_list" /\ rf.sub = ""
    /\ rf' = [rf EXCEPT !.dirs = tree.dirs, !.files = tree.files, !.todo = tree.dirs,
                        !.sub = "."]
    /\ UNCHANGED <<tree, qvars>>

\* walk lists one of the subdirectories and yields it
RfWalkList ==
    /\ rf.pc = "walk_list" /\ rf.sub # ""
    /\ \E d \in rf.todo :
           rf' = [rf EXCEPT !.pc = "walk_clean", !.sub = d, !.snap = tree.ent[d],
                            !.todo = @ \ {d}]
    /\ UNCHANGED <<tree, qvars>>

\* the loop body for a subdirectory: os.remove of every file walk listed
RfWalkClean ==
    /\ rf.pc = "walk_clean"
    /\ tree' = [tree EXCEPT !.ent[rf.sub] = @ \ rf.snap]
    /\ rf' = [rf EXCEPT !.pc = "walk_list", !.snap = {},
                        !.deleted = @ \cup {<<rf.sub, name>> : name \in rf.snap}]
    /\ UNCHANGED qvars

\* the last iteration, for the folder itself: os.remove of its files, then
\* os.rmdir of its subdirectories, in the order of the listing, which
\* raises OSError at one that is not empty
RfCleanTop ==
    /\ rf.pc = "walk_list" /\ rf.sub # "" /\ rf.todo = {}
    /\ LET empty == {d \in rf.dirs : tree.ent[d] = {}}
           gone == {<<".", f>> : f \in rf.files}
       IN  IF empty = rf.dirs
           THEN /\ tree' = [tree EXCEPT !.files = @ \ rf.files, !.dirs = @ \ rf.dirs]
                /\ rf' = [rf EXCEPT !.pc = "rmdir", !.deleted = @ \cup gone]
           ELSE \E before \in SUBSET empty :
                    /\ tree' = [tree EXCEPT !.files = @ \ rf.files, !.dirs = @ \ before]
                    /\ rf' = [rf EXCEPT !.pc = "done", !.res = "OSError",
                                        !.deleted = @ \cup gone]
    /\ UNCHANGED qvars

\* os.rmdir(path)
RfRmdir ==
    /\ rf.pc = "rmdir"
    /\ IF tree.dirs = {} /\ tree.files = {}
       THEN /\ tree' = [tree EXCEPT !.exists = FALSE]
            /\ rf' = [rf EXCEPT !.pc = "done", !.res = "ok"]
       ELSE /\ rf' = [rf EXCEPT !.pc = "done", !.res = "OSError"]
            /\ UNCHANGED tree
    /\ UNCHANGED qvars

\* another process adds a message to the folder: its file appears in new
Deliver ==
    /\ tree.exists /\ "new" \in tree.dirs
    /\ NewName \notin tree.ent["new"]
    /\ <<"new", NewName>> \notin rf.deleted
    /\ tree' = [tree EXCEPT !.ent["new"] = @ \cup {NewName}]
    /\ UNCHANGED <<rf, qvars>>

RemoveFolder ==
    \/ RfStart \/ RfScanNew \/ RfScanCur \/ RfScanTop
    \/ RfWalkTop \/ RfWalkList \/ RfWalkClean \/ RfCleanTop \/ RfRmdir

InitRf ==
    /\ InitStorage /\ Stored(msgs) = {} /\ ~cache[Root].exists
    /\ sub["Sent"] = <<>>
    /\ InitLocal
    /\ pc = [p \in Procs |-> "idle"]
    /\ op = [p \in Procs |-> "none"]
    /\ is_locked = [p \in Procs |-> FALSE]
    /\ sq = [p \in Procs |-> None]
    /\ lockfile = [f \in Folders |-> NoLock]
    /\ left = 0
    /\ tree \in Trees
    /\ rf = RfIdle

\* remove_folder alone
SpecRfAlone == InitRf /\ [][RemoveFolder]_vars

\* remove_folder while a message may be delivered
NextRf == RemoveFolder \/ Deliver

SpecRf == InitRf /\ [][NextRf]_vars

(***************************************************************************)
(* The claims.                                                             *)
(***************************************************************************)
\* no operation is under way
Quiescent == \A p \in Procs : pc[p] = "idle"

\* p is in its with statement on the lock of folder f: from the creation
\* of the artifact by acquire() to the end of release()
InWith(p) == pc[p] \in {"lk_flag", "cs_open", "cs_close", "rl_unlink", "rl_flag"}

\* p holds a lock: is_locked is set and release() has not unlinked the
\* artifact yet
Holds(p) == is_locked[p] /\ pc[p] # "rl_flag"

\* C1 as stated: of the instances on one artifact, at most one has
\* is_locked true at any time.
C1_OneFlagAtATime ==
    \A p, q \in Procs :
        (p # q /\ is_locked[p] /\ is_locked[q]) => cur[p] # cur[q]

\* C1, amended: an instance that holds a lock (is_locked true, its
\* release() not yet past the unlink) owns the artifact, so that at most
\* one instance holds the lock of a folder at any time.
C1_MutualExclusion ==
    /\ \A p \in Procs : Holds(p) => lockfile[cur[p]] = p
    /\ \A p, q \in Procs : (p # q /\ Holds(p) /\ Holds(q)) => cur[p] # cur[q]

\* one process holds the lock of Root while the other, refused, sleeps
C1_Witness ==
    \E p, q \in Procs :
        /\ Holds(p) /\ cur[p] = Root
        /\ pc[q] = "lk_sleep" /\ cur[q] = Root


\* p has the cache file of folder f open for writing
Writing(p, f) == pc[p] = "cs_close" /\ cur[p] = f

\* C2: a cache file is modified, and is open for writing, only by the
\* process that holds its lock: no two processes have the same cache file
\* open for writing, and between the open() and the close() of a writer
\* (set_quota's read and rewrite among them) nobody else changes the file.
C2_WritesUnderLock ==
    /\ [](\A p \in Procs :
              pc[p] \in {"cs_open", "cs_close"} =>
                  is_locked[p] /\ lockfile[cur[p]] = p)
    /\ [](\A p, q \in Procs, f \in Folders :
              (Writing(p, f) /\ Writing(q, f)) => p = q)
    /\ [][\A f \in Folders :
              cache'[f] # cache[f] =>
                  \E p \in Procs :
                      /\ cur[p] = f /\ lockfile[f] = p /\ is_locked[p]
                      /\ pc[p] \in {"cs_open", "cs_close"} /\ pc'[p] # pc[p]]_vars

\* set_quota has read and truncated Root's cache file and not yet written
\* it back, while the other process waits for the lock
C2_Witness ==
    \E p, q \in Procs :
        /\ op[p] = "set_quota" /\ Writing(p, Root)
        /\ op[q] \in {"add", "remove"} /\ pc[q] = "lk_sleep"

\* C3: in a single process without lock contention and without errors,
\* once the cache file has been created by a recalculation, size() returns
\* the true aggregate of the folder (its messages and those of its
\* subfolders other than Trash) after any sequence of operations.
C3_SequentialAccuracy ==
    (/\ pc[1] = "idle" /\ res[1].op = "size" /\ res[1].st = "ok"
     /\ origin = "recalculate" /\ taint = {})
        => res[1].val = Truth

\* the scenario of the specification: an empty folder without subfolder
\* messages is recalculated to (0, 0), a message of 100 bytes is added and
\* removed again, and size() returns (0, 0)
C3_Witness ==
    /\ pc[1] = "idle" /\ res[1] = Ok("size", <<0, 0>>)
    /\ origin = "recalculate" /\ taint = {}
    /\ cache[Root].lines = <<<<>>, DetailLine(0, 0), AddLine(100), RemoveLine(100)>>
    /\ Truth = <<0, 0>>

C5_TimeoutNeverRaised ==
    \A p \in Procs : res[p].st = "raised" => res[p].err # "FileLockException"


\* C6: when the lock of Root's cache file cannot be obtained (its artifact
\* was left behind), recalculate() and a recalculating size() still return
\* the true aggregate, add leaves the message stored and returns its key
\* and size, remove deletes the message and returns its size, and the
\* cache file is not changed by any step.
C6_SkippedWrite ==
    /\ [](\A p \in Procs :
              (pc[p] = "idle" /\ skipped[p]
                   /\ res[p].op \in {"recalculate", "size", "add", "remove"}) =>
                  /\ ~wrote[p]
                  /\ res[p].st = "ok"
                  /\ res[p].op \in {"recalculate", "size"} => res[p].val = Truth
                  /\ res[p].op = "add" => msgs[res[p].val[1]] = res[p].val[2])
    /\ [][\A p \in Procs :
              (pc[p] = "rm_delete" /\ skipped[p] /\ pc'[p] = "idle") =>
                  /\ msgs[key[p]] = msz[p]
                  /\ msgs'[key[p]] = None
                  /\ res'[p] = Ok("remove", <<msz[p]>>)]_vars
    /\ [][lockfile[Root] = Crashed => cache'[Root] = cache[Root]]_vars

\* a remove whose cache write was skipped has emptied the folder, and the
\* cache file still is as the recalculation wrote it
C6_Witness ==
    /\ pc[1] = "idle" /\ skipped[1] /\ res[1] = Ok("remove", <<100>>)
    /\ Stored(msgs) = {}
    /\ cache[Root].lines = <<<<>>, DetailLine(100 + SeqSum(sub["Sent"]),
                                              1 + Len(sub["Sent"]))>>

\* C7: a process that is not inside a with statement holds nothing: its
\* instance is unheld and no artifact is its own, whether the block was
\* left normally or by an exception raised inside it.
C7_ScopedRelease ==
    \A p \in Procs :
        ~InWith(p) => ~is_locked[p] /\ \A f \in Folders : lockfile[f] # p

\* the block of one process was left by an IOError, and the other process
\* has acquired the lock since
C7_Witness ==
    \E p, q \in Procs :
        /\ pc[p] = "idle" /\ res[p].st = "raised" /\ res[p].err = "IOError"
        /\ Holds(q) /\ cur[q] = Root /\ lockfile[Root] = q

\* C8: an attempt of acquire() on an artifact that exists never succeeds
\* and leaves the artifact to its holder: before the timeout has elapsed
\* it is followed by a sleep of one retry delay and another attempt, from
\* then on by the lock-timeout error; an attempt on a free lock succeeds
\* at once.
C8_ContendedAcquire ==
    /\ [][\A p \in Procs :
              (pc[p] = "lk_try" /\ pc'[p] # "lk_try" /\ lockfile[cur[p]] # NoLock) =>
                  /\ lockfile' = lockfile
                  /\ ~is_locked'[p]
                  /\ IF elapsed[p] < Timeout
                     THEN pc'[p] = "lk_sleep"
                     ELSE /\ pc'[p] \notin {"lk_sleep", "lk_flag"}
                          /\ "timeout" \in taint'
                          /\ op[p] = "set_quota" =>
                                 res'[p] = Raised("set_quota", "FileLockException")]_vars
    /\ [][\A p \in Procs :
              (pc[p] = "lk_try" /\ pc'[p] # "lk_try" /\ lockfile[cur[p]] = NoLock) =>
                  pc'[p] = "lk_flag" /\ lockfile'[cur[p]] = p]_vars
    /\ [][\A p \in Procs :
              (pc[p] = "lk_sleep" /\ pc'[p] # "lk_sleep") =>
                  pc'[p] = "lk_try" /\ elapsed'[p] > elapsed[p]]_vars

\* set_quota has ended in the lock-timeout error while the other process
\* still holds the lock
C8_Witness ==
    \E p, q \in Procs :
        /\ res[q] = Raised("set_quota", "FileLockException") /\ ~is_locked[q]
        /\ Holds(p) /\ cur[p] = Root /\ lockfile[Root] = p

\* C9: a process that waits for a lock holds none; every acquire() ends,
\* and every operation returns or raises.
C9_NoIndefiniteBlocking ==
    /\ [](\A p \in Procs :
              pc[p] \in {"lk_try", "lk_sleep"} =>
                  ~is_locked[p] /\ \A f \in Folders : lockfile[f] # p)
    /\ \A p \in Procs :
           (pc[p] \in {"lk_try", "lk_sleep"}) ~> (pc[p] \notin {"lk_try", "lk_sleep"})
    /\ \A p \in Procs : (pc[p] # "idle") ~> (pc[p] = "idle")

\* a process sleeps in the acquire() of Root's lock, whose artifact was
\* left behind and will never be removed
C9_Witness ==
    \E p \in Procs :
        pc[p] = "lk_sleep" /\ cur[p] = Root /\ lockfile[Root] = Crashed

\* C10: whatever the first operation on a folder without cache file is,
\* the cache file stands for the true aggregate once it exists, and a
\* size() made without contention returns the true aggregate.
C10_FirstUseRecalculates ==
    (pc[1] = "idle" /\ taint = {}) =>
        /\ cache[Root].exists => CacheTotals(Root) = Truth
        /\ (res[1].op = "size" /\ res[1].st = "ok") => res[1].val = Truth

\* C11: the write of an add that obtained the lock changes the totals the
\* cache file stands for by exactly (+size, +1), and the write of a remove
\* changes them by exactly (-size, -1), whether or not the cache file
\* existed before the call: a missing file stands for (0, 0).
C11_SymmetricDeltas ==
    [][\A p \in Procs :
           (pc[p] = "cs_close" /\ pc'[p] = "rl_unlink" /\ cur[p] = Root) =>
               /\ op[p] = "add" =>
                      CacheTotals(Root)' = Plus(CacheTotals(Root), <<msz[p], 1>>)
               /\ op[p] = "remove" =>
                      CacheTotals(Root)' = Plus(CacheTotals(Root), <<0 - msz[p], 0 - 1>>)]_vars

\* C12: when add() finds no cache file, the file it creates starts with a
\* header line that carries the ceilings of the folder object in the
\* quota-marker format, so that get_quota() on the file yields the same
\* ceilings.
C12_AddHeaderCarriesQuota ==
    [][\A p \in Procs :
           (pc[p] = "cs_close" /\ pc'[p] = "rl_unlink" /\ op[p] = "add" /\ mode[p] = "w") =>
               /\ Strip(cache'[Root].lines[1]) = QuotaMarkers(sq[p], cq[p])
               /\ ReadQuota(cache'[Root]) = [ok |-> TRUE, s |-> sq[p], c |-> cq[p]]]_vars

\* C20: release() of a held instance whose artifact has been removed in
\* the meantime does not raise and leaves the instance unheld: no
\* operation ends in the OSError of the unlink, and a process outside its
\* with statement holds nothing.
C20_ReleaseToleratesMissing ==
    \A p \in Procs :
        pc[p] = "idle" =>
            ~is_locked[p] /\ ~(res[p].st = "raised" /\ res[p].err = "OSError")

\* C13: size() goes into a full recalculation exactly when the cache file
\* is missing or larger than 5120 bytes; a size() that has recalculated
\* returns the true aggregate and, unless the lock timed out, leaves the
\* cache file as a header line and one absolute detail line; on a file of
\* at most 5120 bytes with no ceiling exceeded, size() returns the totals
\* of the file without walking the directories or writing the file.
C13_RecalcWhenMissingOrOversized ==
    /\ [][\A p \in Procs :
              (pc[p] = "sz_stat" /\ pc'[p] # "sz_stat") =>
                  (pc'[p] = "rc_walk" <=>
                       (~cache[Root].exists \/ ByteLen(cache[Root].lines) > 5120))]_vars
    /\ [][\A p \in Procs :
              (op[p] = "size" /\ pc[p] \notin {"idle", "sz_stat", "sz_read"}
                   /\ pc'[p] = "idle" /\ res'[p].st = "ok") =>
                  /\ res'[p].val = Truth
                  /\ ~skipped'[p] =>
                         cache'[Root].lines = <<QuotaMarkers(sq[p], cq[p]),
                                               DetailLine(Truth[1], Truth[2])>>]_vars
    /\ [][\A p \in Procs :
              (pc[p] = "sz_read" /\ pc'[p] # "sz_read"
                   /\ ReadTotals(cache[Root].lines).ok
                   /\ ~OverQuota(sq[p], cq[p], ReadTotals(cache[Root].lines))) =>
                  /\ res'[p] = Ok("size", CacheTotals(Root))
                  /\ pc'[p] = "idle"
                  /\ ~wrote'[p]
                  /\ UNCHANGED <<cache, msgs, sub, lockfile, total>>]_vars

\* size() has answered (112, 3) from a cache file of exactly 5120 bytes
\* that is stale: the true aggregate is (105, 2)
C13_WitnessAtThreshold ==
    /\ pc[1] = "idle" /\ res[1] = Ok("size", <<112, 3>>)
    /\ ByteLen(cache[Root].lines) = 5120
    /\ Truth = <<105, 2>> /\ ~wrote[1]

\* size() has replaced a cache file of more than 5120 bytes
C13_Witness ==
    /\ pc[1] = "idle" /\ res[1] = Ok("size", <<105, 2>>) /\ wrote[1]
    /\ cache[Root].lines = <<QuotaMarkers(1000, None), DetailLine(105, 2)>>

\* C14: size() recalculates on account of an exceeded ceiling exactly when
\* the cache file has no detail line or was last modified more than 15
\* minutes ago; with at least one detail line and a file modified within
\* that time it returns the totals of the file, so that repeated calls on
\* a folder over its quota do not recalculate every time.
C14_RecencyPolicy ==
    [][\A p \in Procs : \A aged \in BOOLEAN :
           (SizeReadWith(p, aged) /\ ReadTotals(cache[Root].lines).ok) =>
               (pc'[p] = "rc_walk" <=>
                    /\ OverQuota(sq[p], cq[p], ReadTotals(cache[Root].lines))
                    /\ (Len(cache[Root].lines) <= 1 \/ aged))]_vars

\* the header line of the file format for the ceilings s and c: each
\* ceiling that is set as its decimal digits and its letter, comma-joined
MarkerLine(s, c) ==
    (IF s = None THEN <<>> ELSE DecStr(s) \o <<"S">>) \o
    (IF s # None /\ c # None THEN <<",">> ELSE <<>>) \o
    (IF c = None THEN <<>> ELSE DecStr(c) \o <<"C">>)

\* C15 as stated: for every s and c, each unset or a non-negative integer,
\* a set_quota(s, c) that obtained the lock leaves the markers of s and c
\* as the header line, and a get_quota() that reads a file with that
\* header yields exactly (s, c).
C15_QuotaRoundTrip ==
    /\ [](\A p \in Procs :
              (pc[p] = "idle" /\ res[p] = Ok("set_quota", <<>>)) =>
                  /\ cache[Root].lines[1] = MarkerLine(sq[p], cq[p])
                  /\ ReadQuota(cache[Root]) = [ok |-> TRUE, s |-> sq[p], c |-> cq[p]])
    /\ [][\A p \in Procs : \A s, c \in QuotaAny :
              (GqRead(p) /\ cache[Root].exists /\ cache[Root].lines # <<>>
                   /\ cache[Root].lines[1] = MarkerLine(s, c)) =>
                  /\ res'[p] = Ok("get_quota", <<>>)
                  /\ sq'[p] = s /\ cq'[p] = c]_vars

\* C15, amended: the same for every s and c that are unset or a positive
\* integer.
C15_PositiveRoundTrip ==
    /\ [](\A p \in Procs :
              (pc[p] = "idle" /\ res[p] = Ok("set_quota", <<>>)
                   /\ sq[p] # 0 /\ cq[p] # 0) =>
                  /\ cache[Root].lines[1] = MarkerLine(sq[p], cq[p])
                  /\ ReadQuota(cache[Root]) = [ok |-> TRUE, s |-> sq[p], c |-> cq[p]])
    /\ [][\A p \in Procs : \A s, c \in QuotaAny \ {0} :
              (GqRead(p) /\ cache[Root].exists /\ cache[Root].lines # <<>>
                   /\ cache[Root].lines[1] = MarkerLine(s, c)) =>
                  /\ res'[p] = Ok("get_quota", <<>>)
                  /\ sq'[p] = s /\ cq'[p] = c]_vars

\* the scenario of the specification: set_quota(1000, 10) has written the
\* header 1000S,10C, and the get_quota() after it has read (1000, 10)
C15_Witness ==
    /\ pc[1] = "idle" /\ res[1] = Ok("get_quota", <<>>)
    /\ sq[1] = 1000 /\ cq[1] = 10
    /\ cache[Root].lines # <<>>
    /\ cache[Root].lines[1] = <<"1", "0", "0", "0", "S", ",", "1", "0", "C">>

\* C16: set_quota() leaves every detail line of the cache file as it was:
\* what it writes back is the new header and the detail lines it read,
\* nobody changes the file between its read and its rewrite, and it
\* changes the file in no other step; get_quota() changes no file; neither
\* of them changes a message, the cache file of a subfolder or a lock
\* other than the one set_quota takes and gives back.
C16_QuotaOpsTouchOnlyHeader ==
    /\ [][\A p \in Procs :
              (op[p] = "set_quota" /\ pc[p] = "cs_open" /\ pc'[p] = "cs_close") =>
                  Tail(buf'[p]) = IF cache[Root].lines = <<>> THEN <<>>
                                  ELSE Tail(cache[Root].lines)]_vars
    /\ [][\A p \in Procs :
              (op[p] = "set_quota" /\ pc[p] = "cs_close" /\ pc'[p] # "cs_close") =>
                  /\ cache'[Root].lines # <<>>
                  /\ Tail(cache'[Root].lines) = Tail(buf[p])
                  /\ cache'[Root].lines[1] = QuotaMarkers(sq[p], cq[p])]_vars
    /\ [][\A p \in Procs :
              (pc'[p] # pc[p] /\ (op[p] = "set_quota" \/ op'[p] = "set_quota")) =>
                  /\ UNCHANGED <<msgs, sub>>
                  /\ \A f \in Children : cache'[f] = cache[f] /\ lockfile'[f] = lockfile[f]
                  /\ pc[p] \notin {"cs_open", "cs_close"} => cache' = cache
                  /\ (pc[p] = "cs_open" /\ pc'[p] # "cs_close") => cache' = cache]_vars
    /\ [][\A p \in Procs :
              (pc'[p] # pc[p] /\ (pc[p] = "gq_read" \/ pc'[p] = "gq_read")) =>
                  UNCHANGED <<cache, msgs, sub, lockfile>>]_vars
    /\ [][\A p \in Procs :
              (op[p] = "set_quota" /\ pc[p] = "cs_close" /\ pc'[p] = "cs_close") =>
                  cache'[Root] = cache[Root] /\ buf'[p] = buf[p]]_vars

\* set_quota(1, ...) has rewritten a cache file that held the line of a
\* recalculation and the line of an add, and both are still there
C16_Witness ==
    \E p \in Procs :
        /\ pc[p] = "idle" /\ res[p] = Ok("set_quota", <<>>) /\ sq[p] = 1
        /\ Len(cache[Root].lines) = 3
        /\ cache[Root].lines[2] = DetailLine(105, 2)
        /\ cache[Root].lines[3] \in {AddLine(7), AddLine(100)}

C18_CacheAfterMessageOp ==
    /\ [][\A p \in Procs :
              (pc[p] = "cs_close" /\ pc'[p] # "cs_close" /\ cur[p] = Root) =>
                  /\ op[p] = "add" => msgs[key[p]] = msz[p]
                  /\ op[p] = "remove" => msgs[key[p]] = None]_vars
    /\ [](\A p \in Procs :
              (pc[p] = "idle" /\ res[p].op \in {"add", "remove"}
                   /\ res[p].st = "raised" /\ res[p].err = "KeyError") => ~wrote[p])

\* C19: get_quota() never ends in an exception, whatever the state of the
\* cache file; on a file that is missing, or empty because another
\* process is rewriting it, it leaves both ceilings unset.
C19_GetQuotaNeverFails ==
    /\ [](\A p \in Procs : res[p].op = "get_quota" => res[p].st = "ok")
    /\ [][\A p \in Procs :
              (pc[p] = "gq_read" /\ pc'[p] = "idle"
                   /\ (~cache[Root].exists \/ cache[Root].lines = <<>>)) =>
                  sq'[p] = None /\ cq'[p] = None]_vars

\* what holds of get_quota(): no content of the cache file makes it fail
\* (int() is never given anything but digits), and a file that is missing
\* or empty leaves both ceilings unset
C19_ContentTolerated ==
    /\ [](\A p \in Procs :
              (res[p].op = "get_quota" /\ res[p].st = "raised") => res[p].err = "IOError")
    /\ [](\A f \in Folders : ReadQuota(cache[f]).ok)
    /\ [][\A p \in Procs :
              (pc[p] = "gq_read" /\ pc'[p] = "idle"
                   /\ (~cache[Root].exists \/ cache[Root].lines = <<>>)) =>
                  sq'[p] = None /\ cq'[p] = None]_vars

\* C21: what an instance that is not held does to the lock is nothing.
\* When acquire() has timed out, the with statement is left with the
\* lock-timeout error or silently, and the finalizer of the instance
\* changes no artifact, no flag and no cache file; when release() has run,
\* the finalizer that follows changes no artifact; and no step of a
\* process removes or replaces an artifact that is not its own.
C21_UnheldReleaseNoOp ==
    /\ [][\A p \in Procs :
              (pc[p] = "lk_try" /\ pc'[p] \notin {"lk_try", "lk_sleep", "lk_flag"}) =>
                  /\ lockfile' = lockfile /\ cache' = cache
                  /\ ~is_locked'[p]
                  /\ res'[p].st = "raised" => res'[p].err = "FileLockException"]_vars
    /\ [][\A p \in Procs :
              (pc[p] = "rl_flag" /\ pc'[p] # "rl_flag") =>
                  lockfile' = lockfile /\ ~is_locked'[p]]_vars
    /\ [][\A p \in Procs : \A f \in Folders :
              (pc'[p] # pc[p] /\ lockfile[f] \notin {NoLock, p}) =>
                  lockfile'[f] = lockfile[f]]_vars

\* the acquire() of an add has timed out and its instance is gone, and
\* the other process still holds the lock
C21_Witness ==
    \E p, q \in Procs :
        /\ pc[p] = "idle" /\ skipped[p] /\ res[p].op = "add" /\ res[p].st = "ok"
        /\ ~is_locked[p]
        /\ Holds(q) /\ cur[q] = Root /\ lockfile[Root] = q

\* C22: when os.open of the artifact fails for another reason than its
\* existence, the operation ends at once in that error, with the instance
\* unheld and no artifact and no cache file changed; an exception raised
\* inside the with block ends the operation in that exception once the
\* lock is released; and recalculate, add, remove and set_quota return
\* normally without having written the cache file only when the acquire()
\* of its lock timed out.
C22_OnlyTimeoutsAbsorbed ==
    /\ [][\A p \in Procs :
              LockCreateFails(p) =>
                  /\ pc'[p] = "idle" /\ res'[p] = Raised(op[p], "OSError(os.open)")
                  /\ ~is_locked'[p]
                  /\ lockfile' = lockfile /\ cache' = cache /\ elapsed'[p] = 0]_vars
    /\ [][\A p \in Procs :
              (pc[p] = "rl_flag" /\ pc'[p] # "rl_flag" /\ exc[p] # "") =>
                  pc'[p] = "idle" /\ res'[p] = Raised(op[p], exc[p])]_vars
    /\ [](\A p \in Procs :
              (pc[p] = "idle" /\ res[p].st = "ok"
                   /\ res[p].op \in {"recalculate", "add", "remove", "set_quota"}) =>
                  wrote[p] \/ skipped[p])

\* an add has ended in the error of os.open without having waited, while
\* the other process holds the lock
C22_Witness ==
    \E p, q \in Procs :
        /\ pc[p] = "idle" /\ res[p] = Raised("add", "OSError(os.open)")
        /\ ~is_locked[p] /\ ~skipped[p] /\ ~wrote[p]
        /\ Holds(q) /\ lockfile[Root] = q

\* C23: an artifact exists only while the process that created it is
\* running an operation: once its holder has returned, raised or died, no
\* artifact is left to block the acquire() of another process.
C23_LockDiesWithHolder ==
    \A f \in Folders :
        lockfile[f] # NoLock =>
            \E p \in Procs : lockfile[f] = p /\ pc[p] \notin {"idle", "dead"}

\* C24: remove_folder that has raised the not-empty error has deleted
\* nothing, remove_folder that has returned has removed the folder, and
\* nothing remove_folder has deleted is a message file of new or cur.
C24_RemovesOnlyEmptyFolders ==
    /\ rf.res = "NotEmptyError" => rf.deleted = {} /\ tree.exists
    /\ rf.res = "ok" => ~tree.exists
    /\ \A e \in rf.deleted : ~(e[1] \in {"new", "cur"} /\ Blocks(e[2]))

\* the part of C24 about messages alone
C24_NoMessageDeleted ==
    \A e \in rf.deleted : ~(e[1] \in {"new", "cur"} /\ Blocks(e[2]))

\* a folder without messages and without other subdirectories is gone
C24_RemovedWitness ==
    rf.res = "ok" /\ ~tree.exists /\ <<"cur", DotName>> \in rf.deleted

\* C25: when the last operation of a process was a set_quota(s, c) that
\* returned, the other process neither runs nor has last run a set_quota,
\* and no lock on the cache file is held, then the header of the cache
\* file reads (s, c), whatever else the other process did meanwhile.
C25_QuotaNeverLost ==
    \A p \in Procs :
        (/\ pc[p] = "idle" /\ res[p] = Ok("set_quota", <<>>)
         /\ \A q \in Procs \ {p} : op[q] # "set_quota" /\ res[q].op # "set_quota"
         /\ lockfile[Root] = NoLock) =>
            /\ cache[Root].exists
            /\ ReadQuota(cache[Root]) = [ok |-> TRUE, s |-> sq[p], c |-> cq[p]]

\* C26: both components of every pair that size() has returned are
\* greater than or equal to 0, at least as long as no acquire() has timed
\* out and no operation has ended in an exception.
C26_UsageNeverNegative ==
    \A p \in Procs :
        (res[p].op = "size" /\ res[p].st = "ok" /\ taint = {}) =>
            res[p].val[1] >= 0 /\ res[p].val[2] >= 0

\* C27: with instances constructed with max_age, the artifact of a lock is
\* removed by a step of no operation only when it is older than max_age;
\* no two processes are inside the with block of the same lock; and no
\* process that holds a lock finds its artifact gone or replaced.
C27_OverrideKeepsExclusion ==
    /\ [][\A f \in Folders :
              (lockfile[f] # NoLock /\ lockfile'[f] = NoLock /\ pc' = pc) =>
                  TooOld(age[f])]_vars
    /\ [](\A p, q \in Procs : (p # q /\ Holds(p) /\ Holds(q)) => cur[p] # cur[q])
    /\ [](\A p \in Procs : Holds(p) => lockfile[cur[p]] = p)

\* the part of C27 about the age: an artifact is removed by a step of no
\* operation only when it is older than max_age
C27_OnlyOldRemoved ==
    [][\A f \in Folders :
           (lockfile[f] # NoLock /\ lockfile'[f] = NoLock /\ pc' = pc) =>
               TooOld(age[f])]_vars

\* the part of C27 about two holders
C27_NoTwoHolders ==
    \A p, q \in Procs : (p # q /\ Holds(p) /\ Holds(q)) => cur[p] # cur[q]

\* the part of C27 about release(): the artifact a release() unlinks is
\* the one its process created
C27_ReleaseOwnArtifact ==
    [][\A p \in Procs : \A f \in Folders :
           (pc[p] = "rl_unlink" /\ pc'[p] # "rl_unlink" /\ lockfile[f] # NoLock
                /\ lockfile'[f] = NoLock) => lockfile[f] = p]_vars

=============================================================================
